---- MODULE Spec2Model ----
(***************************************************************************)
(* Scenario simulation engine of the banking agent simulation platform:    *)
(* backend/app/logic.py (_baseline, _population_means, simulate, compare)  *)
(* and the HTTP boundary of backend/app/main.py (SimRequest validation,    *)
(* /simulate, /compare, /simulate_abm, /schema).                           *)
(*                                                                         *)
(* Numbers.  The code computes in binary floating point; the model         *)
(* computes the same expressions in exact rational arithmetic, every       *)
(* quantity as an integer numerator over a fixed denominator:              *)
(*   COEFF entries          numerator over COEFF_DEN   (0.005 units)       *)
(*   INT_MULT entries       numerator over MULT_DEN    (tenths)            *)
(*   population means       numerator over MEAN_DEN    (percent)           *)
(*   delta ratios           numerator over RATIO_DEN                       *)
(*   satisfaction, digital  numerator over RATIO_DEN                       *)
(*   churn_rate             numerator over CHURN_DEN                       *)
(*   local (regional) churn numerator over LOCAL_DEN                       *)
(***************************************************************************)
EXTENDS Integers, Sequences, FiniteSets, TLC

\* ------------------------------------------------------------------------
\* Fixed-point denominators
\* ------------------------------------------------------------------------
COEFF_DEN == 200
MULT_DEN == 10
MEAN_DEN == 100
\* effect * multiplier * (months / 6.0)
RATIO_DEN == COEFF_DEN * MULT_DEN * 6
\* impulse (RATIO_DEN, doubled by CHURN_SEVERITY, tenths of the shield)
\* times behavior_adj (thousandths)
SHIELD_DEN == 10
ADJ_DEN == 1000
CHURN_DEN == (RATIO_DEN \div 2) * SHIELD_DEN * ADJ_DEN
\* REGIONAL_CHURN_MULT is 3/2
LOCAL_DEN == 2 * CHURN_DEN

\* ------------------------------------------------------------------------
\* Enumerations and tables (logic.py 193-224, 248-252)
\* ------------------------------------------------------------------------
ScenarioType ==
  { "Fermeture d'Agence", "Currency Devaluation", "Energy Crisis",
    "Political Uncertainty", "Digital Transformation", "Tourism Recovery",
    "Export Boom", "Economic Recovery", "Regional Instability", "Baseline" }

Intensity == { "Faible", "Moyenne", "Forte" }

Segment == { "Tous les segments", "Premium", "SME", "Mass Market" }

REGIONS ==
  << "Tunis", "Ariana", "Ben Arous", "Manouba",
     "Nabeul", "Zaghouan", "Bizerte", "Beja", "Jendouba", "Kef", "Siliana",
     "Sousse", "Monastir", "Mahdia", "Kairouan", "Kasserine", "Sidi Bouzid",
     "Sfax", "Gabes", "Medenine", "Tataouine",
     "Gafsa", "Tozeur", "Kebili" >>

RegionName == { REGIONS[i] : i \in 1..Len(REGIONS) }

\* COEFF: effects in units of 1/COEFF_DEN; region_bias is present for the
\* branch closure only (c.get("region_bias", 0.0) elsewhere)
Eff(cl, sa, ch, di) == [clients |-> cl, sat |-> sa, churn |-> ch, digital |-> di]

COEFF ==
  [ s \in ScenarioType |->
      CASE s = "Fermeture d'Agence"     -> Eff(-8, -4, 6, 2)
        [] s = "Currency Devaluation"   -> Eff(-4, -6, 10, 0)
        [] s = "Energy Crisis"          -> Eff(-10, -8, 12, -2)
        [] s = "Political Uncertainty"  -> Eff(-2, -2, 4, 0)
        [] s = "Digital Transformation" -> Eff(2, 2, -4, 10)
        [] s = "Tourism Recovery"       -> Eff(3, 2, -2, 2)
        [] s = "Export Boom"            -> Eff(4, 3, -2, 0)
        [] s = "Economic Recovery"      -> Eff(2, 2, -2, 0)
        [] s = "Regional Instability"   -> Eff(-6, -4, 6, -1)
        [] s = "Baseline"               -> Eff(0, 0, 0, 0) ]

region_bias(s) == IF s = "Fermeture d'Agence" THEN 100 ELSE 0

\* variant: Forte entered as 0.5
INT_MULT_weak_forte ==
  [ i \in Intensity |->
      CASE i = "Faible" -> 6 [] i = "Moyenne" -> 10 [] i = "Forte" -> 5 ]

INT_MULT ==
  [ i \in Intensity |->
      CASE i = "Faible" -> 6 [] i = "Moyenne" -> 10 [] i = "Forte" -> 15 ]

\* CHURN_SEVERITY = 2.0
CHURN_SEVERITY == 2
\* SEG_CHURN_ELASTICITY, in tenths
SEG_CHURN_ELASTICITY ==
  [ s \in {"Premium", "SME", "Mass Market"} |->
      CASE s = "Premium" -> 7 [] s = "SME" -> 10 [] s = "Mass Market" -> 13 ]
\* REGIONAL_CHURN_MULT = 1.5, as a numerator over 2
REGIONAL_CHURN_MULT == 3
\* DIGITAL_SHIELD = 0.60, in percent
DIGITAL_SHIELD == 60

SEGMENTS == << "Premium", "SME", "Mass Market" >>

rev_per ==
  [ s \in {"Premium", "SME", "Mass Market"} |->
      CASE s = "Premium" -> 26000 [] s = "SME" -> 7000 [] s = "Mass Market" -> 6700 ]

\* ------------------------------------------------------------------------
\* Arithmetic helpers
\* ------------------------------------------------------------------------
Max(a, b) == IF a >= b THEN a ELSE b
Min(a, b) == IF a <= b THEN a ELSE b
Abs(a) == IF a < 0 THEN -a ELSE a

\* variant: the upper bound is not applied
_clamp_no_upper(x, lo, hi) == Max(lo, x)

\* _clamp(x, lo, hi) = max(lo, min(hi, x))
_clamp(x, lo, hi) == Max(lo, Min(hi, x))

\* Python round() of the rational n/d (d > 0): nearest integer, ties to even
round(n, d) ==
  LET q == n \div d
      r == n % d
  IN  IF 2 * r < d THEN q
      ELSE IF 2 * r > d THEN q + 1
      ELSE IF q % 2 = 0 THEN q ELSE q + 1

RECURSIVE SeqSum(_)
SeqSum(s) == IF s = << >> THEN 0 ELSE Head(s) + SeqSum(Tail(s))

\* ------------------------------------------------------------------------
\* IEEE-754 double arithmetic of the quotient n / d of two integers
\* (0 < d, both below 2^30), without leaving small integers.
\* The double nearest to |n| / d is M * 2^(t - 52) with
\* t = floor(log2(|n| / d)) and M = |n| * 2^(52 - t) / d rounded to nearest,
\* ties to even; only the remainder of that division and the parity of its
\* quotient are needed to tell how the quotient was rounded.
\* ------------------------------------------------------------------------
SIGNIFICAND_BITS == 52

RECURSIVE Pow2(_)
Pow2(k) == IF k <= 0 THEN 1 ELSE 2 * Pow2(k - 1)

\* floor(log2(x)) for x >= 1
RECURSIVE FloorLog2(_)
FloorLog2(x) == IF x < 2 THEN 0 ELSE 1 + FloorLog2(x \div 2)

\* floor(log2(x / d)) for x >= 1, d >= 1
RECURSIVE QuotientExponentDown(_, _, _)
QuotientExponentDown(x, d, j) ==
  IF x * Pow2(j) >= d THEN -j ELSE QuotientExponentDown(x, d, j + 1)

QuotientExponent(x, d) ==
  IF x >= d THEN FloorLog2(x \div d) ELSE QuotientExponentDown(x, d, 1)

\* k doubling steps of the long division: << remainder, last quotient bit >>
RECURSIVE LongDivision(_, _, _, _)
LongDivision(r, bit, k, d) ==
  IF k = 0 THEN << r, bit >>
  ELSE LongDivision((2 * r) % d, IF 2 * r >= d THEN 1 ELSE 0, k - 1, d)

\* TRUE iff the double product (n / d) * d, both operations rounded as the
\* hardware rounds them, is n again
RoundTrips(n, d) ==
  IF n = 0 THEN TRUE
  ELSE
    LET x == Abs(n)
        a == FloorLog2(x)
        t == QuotientExponent(x, d)
        rb == LongDivision(x % d, (x \div d) % 2, SIGNIFICAND_BITS - t, d)
        r == rb[1]
        \* (rounded significand) * d - x * 2^(52 - t)
        delta == IF 2 * r < d \/ (2 * r = d /\ rb[2] = 0) THEN -r ELSE d - r
        \* half the gap to the next double above x, in the same unit
        half_gap == Pow2(a - t)
    IN  IF delta >= 0 THEN 2 * delta <= half_gap
        ELSE IF x = Pow2(a) THEN 4 * (-delta) <= half_gap
        ELSE 2 * (-delta) <= half_gap

\* ------------------------------------------------------------------------
\* Population snapshot: the data frame load_df builds from the CSV file.
\* The frame is represented by the aggregates the engine reads from it:
\*   total                      len(df)
\*   governorate[r]             rows whose governorate is region r (0: none)
\*   business_size              value_counts() of the derived size column
\*   cash_usage_ratio           column mean, percent
\*   digital_payment_adoption   column mean, percent
\*   conversion_probability     column mean, over RATIO_DEN
\* ------------------------------------------------------------------------
\* business_size.value_counts(): only the values that occur are keys
value_counts(sizes) ==
  LET present == { k \in DOMAIN sizes : sizes[k] > 0 }
  IN  [ k \in present |-> sizes[k] ]

\* load_df body: the frame built from the file.  The size column is always
\* derived (micro / SME / large); conversion_probability is derived from the
\* two ratio columns unless the file supplies it.
load_df_read(file) ==
  [ total |-> SeqSum([ i \in 1..Len(REGIONS) |-> file.governorate[REGIONS[i]] ])
                + file.other,
    governorate |-> file.governorate,
    business_size |-> value_counts(file.sizes),
    cash_usage_ratio |-> file.cash,
    digital_payment_adoption |-> file.dig,
    conversion_probability |->
      IF "conv" \notin DOMAIN file
        THEN _clamp(((MEAN_DEN - file.cash) * 4 + file.dig * 6)
                      * (RATIO_DEN \div (MEAN_DEN * 10)), 0, RATIO_DEN)
        ELSE file.conv * (RATIO_DEN \div MEAN_DEN) ]

\* variant: an absent region defaults to total // 24 without the floor of 1
_baseline_no_floor(df) ==
  LET total == df.total
      seg_counts(s) == IF s \in DOMAIN df.business_size
                         THEN df.business_size[s] ELSE total \div 3
  IN  [ total_clients |-> total,
        satisfaction |-> df.conversion_probability,
        churn |-> CHURN_DEN \div 4,
        digital |-> df.digital_payment_adoption * (RATIO_DEN \div MEAN_DEN),
        regions |-> [ r \in RegionName |->
                        IF df.governorate[r] > 0 THEN df.governorate[r]
                        ELSE total \div Len(REGIONS) ],
        segments |-> [ s \in {"Premium", "SME", "Mass Market"} |-> seg_counts(s) ] ]

\* _baseline(): Baseline Record of the frame
_baseline(df) ==
  LET total == df.total
      seg_counts(s) == IF s \in DOMAIN df.business_size
                         THEN df.business_size[s] ELSE total \div 3
  IN  [ total_clients |-> total,
        satisfaction |-> df.conversion_probability,
        churn |-> CHURN_DEN \div 4,
        digital |-> df.digital_payment_adoption * (RATIO_DEN \div MEAN_DEN),
        regions |-> [ r \in RegionName |->
                        IF df.governorate[r] > 0 THEN df.governorate[r]
                        ELSE Max(1, total \div Len(REGIONS)) ],
        segments |-> [ s \in {"Premium", "SME", "Mass Market"} |-> seg_counts(s) ] ]

\* _population_means()
_population_means(df) ==
  [ avg_cash |-> df.cash_usage_ratio, avg_dig |-> df.digital_payment_adoption ]

\* ------------------------------------------------------------------------
\* simulate (logic.py 260-339)
\* ------------------------------------------------------------------------
\* risk label of one region (logic.py 309-314); local churn over LOCAL_DEN
\* variant: a shrinking region is not forced to High
RiskLabel_churn_only(d, local_churn) ==
  IF local_churn > 35 * (LOCAL_DEN \div 100) THEN "High"
  ELSE IF local_churn < 18 * (LOCAL_DEN \div 100) /\ d >= 0 THEN "Low"
  ELSE "Medium"

\* variant: a region that merely does not grow is High
RiskLabel_nonpositive(d, local_churn) ==
  IF d <= 0 \/ local_churn > 35 * (LOCAL_DEN \div 100) THEN "High"
  ELSE IF local_churn < 18 * (LOCAL_DEN \div 100) /\ d >= 0 THEN "Low"
  ELSE "Medium"

RiskLabel(d, local_churn) ==
  IF d < 0 \/ local_churn > 35 * (LOCAL_DEN \div 100) THEN "High"
  ELSE IF local_churn < 18 * (LOCAL_DEN \div 100) /\ d >= 0 THEN "Low"
  ELSE "Medium"

\* variant: the region bias weighs the regions other than the target
RegionalImpact_bias_elsewhere(base, scenario, region, ratio, severe_churn, r_name) ==
  LET cur == base.regions[r_name]
      bias == region_bias(scenario)
      weight == COEFF_DEN
                  + (IF scenario = "Fermeture d'Agence" /\ r_name # region
                       THEN bias ELSE 0)
      d == round(cur * ratio * weight, RATIO_DEN * COEFF_DEN)
      reg_churn_mult ==
        IF scenario \in {"Fermeture d'Agence", "Regional Instability"}
             /\ r_name = region
          THEN REGIONAL_CHURN_MULT ELSE 2
      local_churn == _clamp(severe_churn * reg_churn_mult, 0, LOCAL_DEN)
  IN  [ region |-> r_name, current_clients |-> cur, delta_clients |-> d,
        risk |-> RiskLabel(d, local_churn) ]

\* one pass of the regional loop (logic.py 300-316)
RegionalImpact(base, scenario, region, ratio, severe_churn, r_name) ==
  LET cur == base.regions[r_name]
      bias == region_bias(scenario)
      weight == COEFF_DEN
                  + (IF scenario = "Fermeture d'Agence" /\ r_name = region
                       THEN bias ELSE 0)
      d == round(cur * ratio * weight, RATIO_DEN * COEFF_DEN)
      reg_churn_mult ==
        IF scenario \in {"Fermeture d'Agence", "Regional Instability"}
             /\ r_name = region
          THEN REGIONAL_CHURN_MULT ELSE 2
      local_churn == _clamp(severe_churn * reg_churn_mult, 0, LOCAL_DEN)
  IN  [ region |-> r_name, current_clients |-> cur, delta_clients |-> d,
        risk |-> RiskLabel(d, local_churn) ]

\* variant: every segment other than the requested name is skipped, the
\* all-segments request included
SegmentImpact_name_only(base, segment, ratio, s_name) ==
  LET cur == base.segments[s_name]
      seg_multiplier == IF s_name = "Premium" /\ ratio < 0 THEN 115 ELSE 100
      delta == IF s_name # segment
                 THEN 0
                 ELSE round(cur * ratio * seg_multiplier, RATIO_DEN * 100)
  IN  [ name |-> s_name, current_clients |-> cur, delta_clients |-> delta,
        revenue_impact_tnd |-> delta * rev_per[s_name] ]

\* one pass of the segment loop (logic.py 321-337)
SegmentImpact(base, segment, ratio, s_name) ==
  LET cur == base.segments[s_name]
      seg_multiplier == IF s_name = "Premium" /\ ratio < 0 THEN 115 ELSE 100
      delta == IF segment # "Tous les segments" /\ s_name # segment
                 THEN 0
                 ELSE round(cur * ratio * seg_multiplier, RATIO_DEN * 100)
  IN  [ name |-> s_name, current_clients |-> cur, delta_clients |-> delta,
        revenue_impact_tnd |-> delta * rev_per[s_name] ]

\* variant: the shield applies only strictly above DIGITAL_SHIELD
SevereChurn_strict_shield(base, pop, c, m, months) ==
  LET raw_impulse == c.churn * m * months * CHURN_SEVERITY
      behavior_adj == ADJ_DEN + 6 * (pop.avg_cash - pop.avg_dig) * (ADJ_DEN \div (10 * MEAN_DEN))
      shield == IF pop.avg_dig > DIGITAL_SHIELD /\ raw_impulse > 0 THEN 7 ELSE SHIELD_DEN
      churn_impulse == (raw_impulse \div 2) * shield
  IN  _clamp(base.churn + churn_impulse * behavior_adj, 0, CHURN_DEN)

\* severe churn (logic.py 273-287), over CHURN_DEN
SevereChurn(base, pop, c, m, months) ==
  LET raw_impulse == c.churn * m * months * CHURN_SEVERITY
      behavior_adj == ADJ_DEN + 6 * (pop.avg_cash - pop.avg_dig) * (ADJ_DEN \div (10 * MEAN_DEN))
      shield == IF pop.avg_dig >= DIGITAL_SHIELD /\ raw_impulse > 0 THEN 7 ELSE SHIELD_DEN
      \* raw_impulse is over RATIO_DEN; halve the doubled numerator
      churn_impulse == (raw_impulse \div 2) * shield
  IN  _clamp(base.churn + churn_impulse * behavior_adj, 0, CHURN_DEN)

simulate(df, scenario, intensity, segment, region, duration_months) ==
  LET base == _baseline(df)
  IN  IF scenario \notin DOMAIN COEFF \/ intensity \notin DOMAIN INT_MULT
        THEN [ ok |-> FALSE, error |-> "KeyError" ]
      ELSE
        LET c == COEFF[scenario]
            m == INT_MULT[intensity]
            months == duration_months
            clients_delta_ratio == c.clients * m * months
            sat_delta == c.sat * m * months
            digital_delta == c.digital * m * months
            total == base.total_clients
            diff_clients == round(total * clients_delta_ratio, RATIO_DEN)
            pop == _population_means(df)
            severe_churn == SevereChurn(base, pop, c, m, months)
            kpis == [ clients |-> total + diff_clients,
                      diff_clients |-> diff_clients,
                      satisfaction |-> _clamp(base.satisfaction + sat_delta, 0, RATIO_DEN),
                      churn_rate |-> severe_churn,
                      digital_adoption |-> _clamp(base.digital + digital_delta, 0, RATIO_DEN) ]
        IN  [ ok |-> TRUE,
              kpis |-> kpis,
              regional |-> [ i \in 1..Len(REGIONS) |->
                               RegionalImpact(base, scenario, region,
                                              clients_delta_ratio, severe_churn,
                                              REGIONS[i]) ],
              segments |-> [ i \in 1..Len(SEGMENTS) |->
                               SegmentImpact(base, segment, clients_delta_ratio,
                                             SEGMENTS[i]) ] ]

\* ------------------------------------------------------------------------
\* compare (logic.py 341-361)
\* ------------------------------------------------------------------------
\* p.get(key, default) on a payload item
get(p, key, default) == IF key \in DOMAIN p THEN p[key] ELSE default

\* the simulate call of one loop pass (logic.py 350-356)
CallArgs(p) ==
  [ scenario |-> p.scenario,
    region |-> get(p, "region", "Sousse"),
    segment |-> get(p, "segment", "Tous les segments"),
    intensity |-> get(p, "intensity", "Moyenne"),
    duration_months |-> get(p, "duration_months", 6) ]

simulate_args(df, a) ==
  simulate(df, a.scenario, a.intensity, a.segment, a.region, a.duration_months)

\* base_revenue accumulation (logic.py 343-346)
BaseRevenue(base) ==
  SeqSum([ i \in 1..Len(SEGMENTS) |-> base.segments[SEGMENTS[i]] * rev_per[SEGMENTS[i]] ])

\* variant: the baseline is not subtracted
RevenueChange_no_subtraction(revenue, base_revenue) ==
  IF base_revenue # 0
    THEN [ num |-> revenue, den |-> base_revenue ]
    ELSE [ num |-> 0, den |-> 1 ]

\* revenue_change = (revenue - base_revenue) / base_revenue if base_revenue
\* else 0.0: the double nearest to num / den, kept as the pair (num, den)
RevenueChange(revenue, base_revenue) ==
  IF base_revenue # 0
    THEN [ num |-> revenue - base_revenue, den |-> base_revenue ]
    ELSE [ num |-> 0, den |-> 1 ]

\* one loop pass after simulate returned (logic.py 357-360)
ComparisonResult(base, base_revenue, p, res) ==
  LET adoption_change == res.kpis.digital_adoption - base.digital
      revenue == base_revenue
                   + SeqSum([ i \in 1..Len(res.segments) |->
                                res.segments[i].revenue_impact_tnd ])
  IN  [ scenario |-> p.scenario,
        adoption_change |-> adoption_change,
        revenue_change |-> RevenueChange(revenue, base_revenue) ]

\* variant: the revenue of one request becomes the baseline of the next
RECURSIVE CompareLoop_running_base(_, _, _, _, _)
CompareLoop_running_base(df, base, base_revenue, payload, out) ==
  IF payload = << >> THEN [ ok |-> TRUE, out |-> out ]
  ELSE LET p == Head(payload)
           res == simulate_args(df, CallArgs(p))
       IN  IF ~res.ok THEN [ ok |-> FALSE, error |-> res.error ]
           ELSE CompareLoop_running_base(df, base,
                  base_revenue
                    + SeqSum([ i \in 1..Len(res.segments) |->
                                 res.segments[i].revenue_impact_tnd ]),
                  Tail(payload),
                  Append(out, ComparisonResult(base, base_revenue, p, res)))

\* the loop over the payload: an exception of simulate leaves the loop and
\* the function, and the list built so far is dropped
RECURSIVE CompareLoop(_, _, _, _, _)
CompareLoop(df, base, base_revenue, payload, out) ==
  IF payload = << >> THEN [ ok |-> TRUE, out |-> out ]
  ELSE LET p == Head(payload)
           res == simulate_args(df, CallArgs(p))
       IN  IF ~res.ok THEN [ ok |-> FALSE, error |-> res.error ]
           ELSE CompareLoop(df, base, base_revenue, Tail(payload),
                            Append(out, ComparisonResult(base, base_revenue, p, res)))

\* variant: a request whose simulation raises is skipped
compare_skip_failed(df, payload) ==
  LET base == _baseline(df)
      Runs(p) == simulate_args(df, CallArgs(p)).ok
  IN  CompareLoop(df, base, BaseRevenue(base), SelectSeq(payload, Runs), << >>)

compare(df, payload) ==
  LET base == _baseline(df)
  IN  CompareLoop(df, base, BaseRevenue(base), payload, << >>)

\* the simulate calls compare makes: every item up to and including the
\* first one that raises
RECURSIVE CompareCalls(_, _)
CompareCalls(df, payload) ==
  IF payload = << >> THEN << >>
  ELSE LET a == CallArgs(Head(payload))
       IN  IF ~simulate_args(df, a).ok THEN << a >>
           ELSE << a >> \o CompareCalls(df, Tail(payload))

\* ------------------------------------------------------------------------
\* HTTP boundary (main.py 47-99)
\* ------------------------------------------------------------------------
MIN_DURATION == 1
MAX_DURATION == 24

\* variant: le=24 is missing
DurationOk_no_upper(d) == d >= MIN_DURATION

\* Field(6, ge=1, le=24)
DurationOk(d) == d >= MIN_DURATION /\ d <= MAX_DURATION

\* SimRequest: pydantic validation of a request body; absent optional
\* fields take their defaults, a value outside a Literal or the duration
\* range is a validation error.  A body is a record whose DOMAIN holds the
\* keys that are present.
SimRequestValid(raw) ==
  /\ "scenario" \in DOMAIN raw /\ raw.scenario \in ScenarioType
  /\ "intensity" \in DOMAIN raw => raw.intensity \in Intensity
  /\ "segment" \in DOMAIN raw => raw.segment \in Segment
  /\ "region" \in DOMAIN raw => raw.region \in RegionName
  /\ "duration_months" \in DOMAIN raw => DurationOk(raw.duration_months)

SimRequest(raw) ==
  [ scenario |-> raw.scenario,
    region |-> get(raw, "region", "Sousse"),
    segment |-> get(raw, "segment", "Tous les segments"),
    intensity |-> get(raw, "intensity", "Moyenne"),
    duration_months |-> get(raw, "duration_months", 6) ]

\* ------------------------------------------------------------------------
\* Bounds of the model
\* ------------------------------------------------------------------------
\* rows of a populated governorate come in blocks of RowUnit rows
RowUnit == 24
MaxRowUnits == 1
\* rows whose governorate is outside REGIONS ("Unknown")
OtherRows == 1
\* longest compare batch
MaxBatch == 2

\* (cash_usage_ratio, digital_payment_adoption) column means, percent
MeanProfiles == { <<50, 50>>, <<100, 0>>, <<0, 100>>, <<30, 60>> }

\* CSV files: Tunis holds up to MaxRowUnits blocks of rows, Sousse one block
\* or none, the other governorates of REGIONS none; the rows either all SME
\* (no Emploi column) or all micro
Files ==
  { [ governorate |-> [ r \in RegionName |->
                          IF r = "Tunis" THEN a * RowUnit
                          ELSE IF r = "Sousse" THEN b * RowUnit ELSE 0 ],
      other |-> OtherRows,
      sizes |-> IF sme THEN [ micro |-> 0, SME |-> (a + b) * RowUnit + OtherRows, large |-> 0 ]
                ELSE [ micro |-> (a + b) * RowUnit + OtherRows, SME |-> 0, large |-> 0 ],
      cash |-> mp[1],
      dig |-> mp[2] ] :
      a \in 0..MaxRowUnits, b \in 0..1, sme \in BOOLEAN, mp \in MeanProfiles }

\* request values tried at the entry points
RawScenarios == ScenarioType \cup { "Unknown Scenario" }
TargetRegions == { "Sousse", "Kebili" }
RawDurations == { 0, 1, 6, 24, 25 }
\* a body or payload item carries every optional key or none of them
FullItem(sc, i, sg, r, d) ==
  [ scenario |-> sc, region |-> r, segment |-> sg, intensity |-> i,
    duration_months |-> d ]
BareItem(sc) == [ scenario |-> sc ]

\* the inputs are enumerated as tuples << scenario, intensity, segment,
\* region, duration >> or << scenario >>; AsItem builds the body
AsItem(t) ==
  IF Len(t) = 1 THEN BareItem(t[1]) ELSE FullItem(t[1], t[2], t[3], t[4], t[5])

Bodies ==
  (RawScenarios \X Intensity \X Segment \X TargetRegions \X RawDurations)
    \cup { << sc >> : sc \in RawScenarios }

\* items of a compare batch; also the requests tried at the direct calls
\* and at /simulate_abm
BatchItems ==
  { << "Fermeture d'Agence" >>, << "Digital Transformation" >>,
    << "Baseline" >>, << "Unknown Scenario" >>,
    << "Fermeture d'Agence", "Forte", "Premium", "Kebili", 12 >>,
    << "Digital Transformation", "Forte", "Premium", "Kebili", 25 >> }

AsPayload(b) == [ i \in 1..Len(b) |-> AsItem(b[i]) ]

Batches == UNION { [ 1..n -> BatchItems ] : n \in 0..MaxBatch }

\* ------------------------------------------------------------------------
\* State
\* ------------------------------------------------------------------------
\* no call in progress
NoResponse == [ pending |-> TRUE ]

\* file                 content of DATA_PATH
\* cache                lru_cache(maxsize=1) of load_df: << >> or << df >>
\* last_schema_mapping  logic._last_schema_mapping
\* entry                entry point of the call in progress, or "idle"
\* request              its argument: the list of bodies, payload items or
\*                      call arguments it was given
\* invoked              arguments of the simulate calls it made, in order
\* response             its outcome
\* calls                per worker thread, the progress of the simulate or
\*                      compare call it runs step by step
VARIABLES file, cache, last_schema_mapping, entry, request, invoked, response, calls

vars == << file, cache, last_schema_mapping, entry, request, invoked, response, calls >>

\* worker threads of the server's thread pool
NumThreads == 2
Threads == 1..NumThreads

\* a thread that runs no call
IdleCall ==
  [ pc |-> "idle", kind |-> "none", todo |-> 0, reads |-> << >>, own |-> << >>,
    missed |-> FALSE, wrote |-> FALSE, start |-> << >>, end |-> << >> ]

Init ==
  /\ file \in Files
  /\ cache = << >>
  /\ last_schema_mapping = "empty"
  /\ entry = "idle"
  /\ request = << >>
  /\ invoked = << >>
  /\ response = NoResponse
  /\ calls = [ t \in Threads |-> IdleCall ]

\* load_df(): the cached frame, read on the first call
load_df == IF cache = << >> THEN load_df_read(file) ELSE cache[1]

\* a handler ran load_df at least once
Loaded ==
  /\ cache' = << load_df >>
  /\ last_schema_mapping' = IF cache = << >> THEN "mapped" ELSE last_schema_mapping

NotLoaded == UNCHANGED << cache, last_schema_mapping >>

\* logic.simulate called directly
Simulate(a) ==
  /\ entry = "idle"
  /\ entry' = "simulate"
  /\ request' = << a >>
  /\ invoked' = << a >>
  /\ response' = simulate_args(load_df, a)
  /\ Loaded
  /\ UNCHANGED << file, calls >>

\* logic.compare called directly
Compare(payload) ==
  /\ entry = "idle"
  /\ entry' = "compare"
  /\ request' = payload
  /\ invoked' = CompareCalls(load_df, payload)
  /\ response' = compare(load_df, payload)
  /\ Loaded
  /\ UNCHANGED << file, calls >>

\* POST /simulate
ApiSimulate(raw) ==
  /\ entry = "idle"
  /\ entry' = "/simulate"
  /\ request' = << raw >>
  /\ IF ~SimRequestValid(raw)
       THEN /\ invoked' = << >>
            /\ response' = [ status |-> 422 ]
            /\ NotLoaded
       ELSE LET req == SimRequest(raw)
            IN  /\ invoked' = << req >>
                /\ response' = [ status |-> 200, body |-> simulate_args(load_df, req) ]
                /\ Loaded
  /\ UNCHANGED << file, calls >>

\* POST /compare
ApiCompare(raws) ==
  /\ entry = "idle"
  /\ entry' = "/compare"
  /\ request' = raws
  /\ IF \E i \in 1..Len(raws) : ~SimRequestValid(raws[i])
       THEN /\ invoked' = << >>
            /\ response' = [ status |-> 422 ]
            /\ NotLoaded
       ELSE LET payload == [ i \in 1..Len(raws) |-> SimRequest(raws[i]) ]
            IN  /\ invoked' = CompareCalls(load_df, payload)
                /\ response' = [ status |-> 200, body |-> compare(load_df, payload) ]
                /\ Loaded
  /\ UNCHANGED << file, calls >>

\* POST /simulate_abm: simulate_with_abm is the AgentPy-backed function or,
\* when the import of agentpy failed, the stub that raises ImportError
ApiSimulateAbm(raw, agentpy_available) ==
  /\ entry = "idle"
  /\ entry' = "/simulate_abm"
  /\ request' = << raw >>
  /\ IF ~SimRequestValid(raw)
       THEN /\ invoked' = << >>
            /\ response' = [ status |-> 422 ]
            /\ NotLoaded
       ELSE IF ~agentpy_available
         THEN /\ invoked' = << >>
              /\ response' = [ status |-> 501 ]
              /\ NotLoaded
         ELSE LET req == SimRequest(raw)
                  det == simulate_args(load_df, req)
                  \* end(): total_clients = number of agents = len(df)
                  abm == [ total_clients |-> load_df.total ]
              IN  /\ invoked' = << req >>
                  /\ response' = [ status |-> 200, body |-> det, abm_preview |-> abm ]
                  /\ Loaded
  /\ UNCHANGED << file, calls >>

\* GET /schema: main.py returns the mapping object it imported
ApiSchema ==
  /\ entry = "idle"
  /\ entry' = "/schema"
  /\ request' = << >>
  /\ invoked' = << >>
  /\ response' = [ status |-> 200, mapping |-> "empty" ]
  /\ Loaded
  /\ UNCHANGED << file, calls >>

\* the call returns to its caller
Return ==
  /\ entry # "idle"
  /\ entry' = "idle"
  /\ request' = << >>
  /\ invoked' = << >>
  /\ response' = NoResponse
  /\ UNCHANGED << file, cache, last_schema_mapping, calls >>

Next ==
  \/ \E p \in BatchItems : Simulate(CallArgs(AsItem(p)))
  \/ \E b \in Batches : Compare(AsPayload(b))
  \/ \E body \in Bodies : ApiSimulate(AsItem(body))
  \/ \E b \in Batches : ApiCompare(AsPayload(b))
  \/ \E body \in BatchItems, av \in BOOLEAN : ApiSimulateAbm(AsItem(body), av)
  \/ ApiSchema
  \/ Return

Spec == Init /\ [][Next]_vars

TypeOK ==
  /\ file \in Files
  /\ Len(cache) <= 1
  /\ last_schema_mapping \in { "empty", "mapped" }
  /\ entry \in { "idle", "simulate", "compare", "/simulate", "/compare",
                 "/simulate_abm", "/schema" }

\* ------------------------------------------------------------------------
\* Concurrent calls: the endpoints are plain def handlers, which the server
\* runs on worker threads; a thread can be preempted between the steps of
\* load_df's lru_cache wrapper
\* ------------------------------------------------------------------------
\* variant: load_df without its cache decorator
lru_hit_never(c) == FALSE

\* the wrapper finds the key in the cache
lru_hit(c) == c # << >>

\* the wrapper stores a result unless the key was added during the call
lru_store(c, result) == IF c = << >> THEN << result >> ELSE c

\* load_df calls of one call: simulate runs _baseline and
\* _population_means; compare runs _baseline and then simulate per item
LoadsOf(kind, n) == IF kind = "simulate" THEN 2 ELSE 1 + 2 * n

Shared == << cache, last_schema_mapping >>
Sequential == << entry, request, invoked, response >>

\* the load_df call of thread t returned
AfterLoad(t, df) ==
  [ calls[t] EXCEPT !.reads = Append(@, df),
                    !.own = << >>,
                    !.todo = @ - 1,
                    !.pc = IF calls[t].todo = 1 THEN "return" ELSE "lookup" ]

\* thread t enters simulate, or compare with a payload of n items
CallStart(t, kind, n) ==
  /\ calls[t].pc = "idle"
  /\ calls' = [ calls EXCEPT ![t] =
                  [ IdleCall EXCEPT !.pc = "lookup", !.kind = kind,
                                    !.todo = LoadsOf(kind, n),
                                    !.start = Shared ] ]
  /\ UNCHANGED << file, cache, last_schema_mapping, Sequential >>

\* load_df(): cache lookup
Lookup(t) ==
  /\ calls[t].pc = "lookup"
  /\ calls' = [ calls EXCEPT ![t] =
                  IF lru_hit(cache) THEN AfterLoad(t, cache[1])
                  ELSE [ calls[t] EXCEPT !.pc = "body", !.missed = TRUE ] ]
  /\ UNCHANGED << file, cache, last_schema_mapping, Sequential >>

\* load_df body: the frame is built from the file and the module global is
\* rebound
Body(t) ==
  /\ calls[t].pc = "body"
  /\ last_schema_mapping' = "mapped"
  /\ calls' = [ calls EXCEPT ![t] =
                  [ calls[t] EXCEPT !.pc = "store", !.wrote = TRUE,
                                    !.own = << load_df_read(file) >> ] ]
  /\ UNCHANGED << file, cache, Sequential >>

\* the wrapper stores the frame and returns it
Store(t) ==
  /\ calls[t].pc = "store"
  /\ cache' = lru_store(cache, calls[t].own[1])
  /\ calls' = [ calls EXCEPT ![t] = AfterLoad(t, calls[t].own[1]) ]
  /\ UNCHANGED << file, last_schema_mapping, Sequential >>

\* the rest of the call only computes on what it read
Finish(t) ==
  /\ calls[t].pc = "return"
  /\ calls' = [ calls EXCEPT ![t] =
                  [ calls[t] EXCEPT !.pc = "done", !.end = Shared ] ]
  /\ UNCHANGED << file, cache, last_schema_mapping, Sequential >>

\* the thread is free again
CallReturn(t) ==
  /\ calls[t].pc = "done"
  /\ calls' = [ calls EXCEPT ![t] = IdleCall ]
  /\ UNCHANGED << file, cache, last_schema_mapping, Sequential >>

ConcNext ==
  \/ \E t \in Threads : CallStart(t, "simulate", 0)
  \/ \E t \in Threads, n \in 0..1 : CallStart(t, "compare", n)
  \/ \E t \in Threads : Lookup(t)
  \/ \E t \in Threads : Body(t)
  \/ \E t \in Threads : Store(t)
  \/ \E t \in Threads : Finish(t)
  \/ \E t \in Threads : CallReturn(t)

\* the content of the file plays no part in the interleavings: the
\* neutral mean profile, SME rows, Sousse empty
ConcInit ==
  /\ Init
  /\ file.cash = 50 /\ file.dig = 50 /\ file.sizes.SME > 0
  /\ file.governorate["Sousse"] = 0

ConcSpec == ConcInit /\ [][ConcNext]_vars

\* ------------------------------------------------------------------------
\* Properties
\* ------------------------------------------------------------------------
\* a simulate call returned a result in this state
SimEntries == { "simulate", "/simulate", "/simulate_abm" }
SimDone == entry \in SimEntries /\ invoked # << >>
SimArgs == invoked[1]
SimRes == IF entry = "simulate" THEN response ELSE response.body
SimOk == SimDone /\ SimRes.ok
\* the frame and the Baseline Record the call read
Df == cache[1]
Base == _baseline(Df)

WithSegment(a, sg) == [ a EXCEPT !.segment = sg ]
WithIntensity(a, i) == [ a EXCEPT !.intensity = i ]

\* C1: for a valid request and a snapshot whose mean ratios are in [0,1],
\* satisfaction, churn_rate and digital_adoption of the result are in [0,1]
C1_RatioKpisInUnitInterval ==
  (SimOk /\ DurationOk(SimArgs.duration_months)
     /\ Df.cash_usage_ratio \in 0..MEAN_DEN
     /\ Df.digital_payment_adoption \in 0..MEAN_DEN
     /\ Df.conversion_probability \in 0..RATIO_DEN)
    => /\ SimRes.kpis.satisfaction \in 0..RATIO_DEN
       /\ SimRes.kpis.churn_rate \in 0..CHURN_DEN
       /\ SimRes.kpis.digital_adoption \in 0..RATIO_DEN

\* C1 witness: a valid request whose unclamped satisfaction exceeds 1
C1_Witness ==
  /\ SimOk /\ DurationOk(SimArgs.duration_months)
  /\ Base.satisfaction
       + COEFF[SimArgs.scenario].sat * INT_MULT[SimArgs.intensity]
           * SimArgs.duration_months > RATIO_DEN
  /\ SimRes.kpis.satisfaction = RATIO_DEN

\* C2: the Baseline scenario returns the baseline unchanged: no client
\* delta, baseline satisfaction, digital adoption and churn (0.25), zero
\* delta in every region and segment, and the label Medium in every region
C2_BaselineIsNeutral ==
  (SimOk /\ SimArgs.scenario = "Baseline")
    => /\ SimRes.kpis.diff_clients = 0
       /\ SimRes.kpis.clients = Base.total_clients
       /\ SimRes.kpis.satisfaction = Base.satisfaction
       /\ SimRes.kpis.digital_adoption = Base.digital
       /\ SimRes.kpis.churn_rate * 4 = CHURN_DEN
       /\ \A i \in 1..Len(SimRes.regional) :
            /\ SimRes.regional[i].delta_clients = 0
            /\ SimRes.regional[i].risk = "Medium"
       /\ \A i \in 1..Len(SimRes.segments) :
            SimRes.segments[i].delta_clients = 0

\* C2 witness: Baseline at the strongest intensity and the longest duration
C2_Witness ==
  /\ SimOk /\ SimArgs.scenario = "Baseline"
  /\ SimArgs.intensity = "Forte" /\ SimArgs.duration_months = MAX_DURATION
  /\ Base.total_clients > RowUnit
  /\ Len(SimRes.regional) = Len(REGIONS)

\* local churn of region r in the result, over LOCAL_DEN, from the returned
\* churn_rate KPI
LocalChurnOf(a, res, r) ==
  IF a.scenario \in {"Fermeture d'Agence", "Regional Instability"} /\ r = a.region
    THEN Min(3 * res.kpis.churn_rate, LOCAL_DEN)
    ELSE 2 * res.kpis.churn_rate

\* C3: a region is High if its delta is negative or its local churn is above
\* 0.35, otherwise Low if its local churn is below 0.18 (and its delta is
\* not negative), otherwise Medium
C3_RiskLabelRule ==
  SimOk =>
    \A i \in 1..Len(SimRes.regional) :
      LET reg == SimRes.regional[i]
          lc == LocalChurnOf(SimArgs, SimRes, reg.region)
          high == reg.delta_clients < 0 \/ lc > 35 * (LOCAL_DEN \div 100)
          low == lc < 18 * (LOCAL_DEN \div 100) /\ reg.delta_clients >= 0
      IN  /\ high => reg.risk = "High"
          /\ (~high /\ low) => reg.risk = "Low"
          /\ (~high /\ ~low) => reg.risk = "Medium"
          /\ reg.delta_clients < 0 => reg.risk = "High"

\* C3 witness: a shrinking region whose local churn is not above 0.35, so
\* that the negative delta alone decides the label
C3_Witness ==
  /\ SimOk
  /\ \E i \in 1..Len(SimRes.regional) :
       /\ SimRes.regional[i].delta_clients < 0
       /\ LocalChurnOf(SimArgs, SimRes, SimRes.regional[i].region)
            <= 35 * (LOCAL_DEN \div 100)
       /\ SimRes.regional[i].risk = "High"

\* a compare call returned its list in this state
CompareEntries == { "compare", "/compare" }
CompareRes == IF entry = "compare" THEN response ELSE response.body
CompareOk ==
  /\ entry \in CompareEntries
  /\ entry = "/compare" => response.status = 200
  /\ CompareRes.ok

\* sum of revenue_impact_tnd over the segments of a simulate result
RevenueImpactSum(res) ==
  SeqSum([ j \in 1..Len(res.segments) |-> res.segments[j].revenue_impact_tnd ])

\* baseline revenue: baseline count times unit revenue, over the segments
SharedBaseRevenue ==
  Base.segments["Premium"] * 26000 + Base.segments["SME"] * 7000
    + Base.segments["Mass Market"] * 6700

\* C4 as stated: revenue_change times the baseline revenue is exactly the
\* sum of the request's segment revenue impacts, and revenue_change is 0
\* when the baseline revenue is 0
C4_ProductReconcilesExactly ==
  CompareOk =>
    \A i \in 1..Len(invoked) :
      LET rc == CompareRes.out[i].revenue_change
          sum == RevenueImpactSum(simulate_args(Df, invoked[i]))
      IN  IF SharedBaseRevenue = 0
            THEN rc.num = 0 /\ rc.den # 0
            ELSE /\ rc.den = SharedBaseRevenue /\ rc.num = sum
                 /\ RoundTrips(rc.num, rc.den)

\* C4 amended: revenue_change is the quotient of the sum of the request's
\* segment revenue impacts by the baseline revenue (the double nearest to
\* it), and it is 0 when the baseline revenue is 0
C4_QuotientOfImpactSum ==
  CompareOk =>
    /\ Len(CompareRes.out) = Len(invoked)
    /\ \A i \in 1..Len(invoked) :
         LET rc == CompareRes.out[i].revenue_change
             sum == RevenueImpactSum(simulate_args(Df, invoked[i]))
         IN  IF SharedBaseRevenue = 0
               THEN rc.num = 0 /\ rc.den # 0 /\ sum = 0
               ELSE rc.den = SharedBaseRevenue /\ rc.num = sum

\* C4 witness: a request of a batch with a non-zero revenue impact over a
\* non-zero baseline revenue
C4_Witness ==
  /\ CompareOk
  /\ SharedBaseRevenue # 0
  /\ \E i \in 1..Len(invoked) :
       /\ RevenueImpactSum(simulate_args(Df, invoked[i])) # 0
       /\ CompareRes.out[i].revenue_change.num
            = RevenueImpactSum(simulate_args(Df, invoked[i]))

\* a batch compared over a baseline revenue of 0
C4_ZeroBaseRevenueReached ==
  CompareOk /\ SharedBaseRevenue = 0 /\ Len(invoked) > 0

\* C5: with one segment targeted, every other segment reports a zero
\* delta, a zero revenue impact and its baseline count, and the targeted
\* segment's record is the one it gets under 'Tous les segments'
C5_SegmentIsolation ==
  (SimOk /\ SimArgs.segment # "Tous les segments")
    => LET all == simulate_args(Df, WithSegment(SimArgs, "Tous les segments"))
       IN  \A i \in 1..Len(SimRes.segments) :
             LET seg == SimRes.segments[i]
             IN  IF seg.name # SimArgs.segment
                   THEN /\ seg.delta_clients = 0
                        /\ seg.revenue_impact_tnd = 0
                        /\ seg.current_clients = Base.segments[seg.name]
                   ELSE seg = all.segments[i]

\* C5 witness: Premium targeted, its delta non-zero, while the SME segment
\* would have moved under 'Tous les segments'
C5_Witness ==
  /\ SimOk /\ SimArgs.segment = "Premium"
  /\ SimRes.segments[1].delta_clients # 0
  /\ SimRes.segments[2].delta_clients = 0
  /\ simulate_args(Df, WithSegment(SimArgs, "Tous les segments")).segments[2].delta_clients # 0

\* KPI client count of the call with its intensity replaced by i
ClientsAt(i) == simulate_args(Df, WithIntensity(SimArgs, i)).kpis.clients

NegativeClientEffect ==
  SimOk /\ COEFF[SimArgs.scenario].clients < 0

\* C6 as stated: for a scenario with a negative client effect the KPI client
\* count strictly decreases from Faible to Moyenne to Forte (the client
\* count is never clamped, so no clamp boundary excuses an equality)
C6_StrictlyDecreasing ==
  NegativeClientEffect
    => /\ ClientsAt("Faible") > ClientsAt("Moyenne")
       /\ ClientsAt("Moyenne") > ClientsAt("Forte")

\* C6 amended: for a scenario with a negative client effect the KPI client
\* count never increases from Faible to Moyenne to Forte; it stays equal
\* where round() gives the same client delta
C6_NeverIncreasing ==
  NegativeClientEffect
    => /\ ClientsAt("Faible") >= ClientsAt("Moyenne")
       /\ ClientsAt("Moyenne") >= ClientsAt("Forte")
       /\ SimRes.kpis.clients = ClientsAt(SimArgs.intensity)

\* C6 witness: a Forte result strictly below Moyenne, itself strictly below
\* Faible
C6_Witness ==
  /\ NegativeClientEffect
  /\ SimArgs.intensity = "Forte"
  /\ ClientsAt("Faible") > ClientsAt("Moyenne")
  /\ ClientsAt("Moyenne") > SimRes.kpis.clients

\* regional record of region r in a result
RegionalOf(res, r) ==
  res.regional[CHOOSE i \in 1..Len(res.regional) : res.regional[i].region = r]

BranchClosureForte6 ==
  /\ SimOk
  /\ SimArgs.scenario = "Fermeture d'Agence"
  /\ SimArgs.intensity = "Forte"
  /\ SimArgs.duration_months = 6

\* C7 as stated: under the branch closure at Forte for 6 months the
\* targeted region's |delta_clients| is strictly greater than that of every
\* other region
C7_TargetDeltaExceedsAll ==
  BranchClosureForte6
    => \A r \in RegionName \ { SimArgs.region } :
         Abs(RegionalOf(SimRes, SimArgs.region).delta_clients)
           > Abs(RegionalOf(SimRes, r).delta_clients)

\* C7 amended: the targeted region's |delta_clients| is at least that of
\* every other region whose baseline count does not exceed the target's
C7_TargetDeltaAtLeastSmallerRegions ==
  BranchClosureForte6
    => \A r \in RegionName \ { SimArgs.region } :
         Base.regions[r] <= Base.regions[SimArgs.region]
           => Abs(RegionalOf(SimRes, SimArgs.region).delta_clients)
                >= Abs(RegionalOf(SimRes, r).delta_clients)

\* C7 witness: another region as populated as the target loses clients,
\* and the target loses more
C7_Witness ==
  /\ BranchClosureForte6
  /\ \E r \in RegionName \ { SimArgs.region } :
       /\ Base.regions[r] = Base.regions[SimArgs.region]
       /\ RegionalOf(SimRes, r).delta_clients < 0
       /\ Abs(RegionalOf(SimRes, SimArgs.region).delta_clients)
            > Abs(RegionalOf(SimRes, r).delta_clients)

\* the payload compare was given
Payload ==
  IF entry = "/compare" THEN [ i \in 1..Len(request) |-> SimRequest(request[i]) ]
  ELSE request

\* C8: compare returns one result per request, in order, each carrying its
\* request's scenario name and equal to the result of compare on that
\* request alone; identical requests get identical entries
C8_ComparePointwise ==
  CompareOk =>
    /\ Len(CompareRes.out) = Len(request)
    /\ \A i \in 1..Len(request) :
         /\ CompareRes.out[i].scenario = request[i].scenario
         /\ CompareRes.out[i] = compare(Df, << Payload[i] >>).out[1]
    /\ \A i, j \in 1..Len(request) :
         Payload[i] = Payload[j] => CompareRes.out[i] = CompareRes.out[j]

\* C8 witness: two identical requests with a revenue impact, two
\* identical entries
C8_Witness ==
  /\ CompareOk
  /\ Len(request) = 2
  /\ Payload[1] = Payload[2]
  /\ CompareRes.out[1].revenue_change.num # 0
  /\ CompareRes.out[1] = CompareRes.out[2]

UnknownScenarioAt(i) == request[i].scenario \notin DOMAIN COEFF

\* C9: simulate raises on a scenario absent from COEFF, and a compare
\* batch holding such a request at any position fails as a whole: no list
\* is returned
C9_UnknownScenarioFails ==
  /\ (entry = "simulate" /\ UnknownScenarioAt(1))
       => (~response.ok /\ response.error = "KeyError")
  /\ (entry = "compare" /\ \E i \in 1..Len(request) : UnknownScenarioAt(i))
       => (~response.ok /\ response.error = "KeyError"
             /\ "out" \notin DOMAIN response)
  /\ (entry = "/compare" /\ \E i \in 1..Len(request) : UnknownScenarioAt(i))
       => (response.status = 422 /\ "body" \notin DOMAIN response)

\* C9 witness: the second request of a batch names an unknown scenario
\* after the first one was simulated
C9_Witness ==
  /\ entry = "compare"
  /\ Len(request) = 2
  /\ ~UnknownScenarioAt(1) /\ UnknownScenarioAt(2)
  /\ Len(invoked) = 2
  /\ ~response.ok

ApiEntries == { "/simulate", "/compare", "/simulate_abm" }
DurationOutOfRangeAt(i) ==
  /\ "duration_months" \in DOMAIN request[i]
  /\ request[i].duration_months \notin 1..24

\* C10: through the endpoints simulate is only called with a duration in
\* 1..24, and a body with a duration outside 1..24 is rejected without any
\* simulate call
C10_DurationCheckedAtBoundary ==
  entry \in ApiEntries =>
    /\ \A i \in 1..Len(invoked) : invoked[i].duration_months \in 1..24
    /\ (\E i \in 1..Len(request) : DurationOutOfRangeAt(i))
         => (invoked = << >> /\ response.status = 422)

\* C10 witness: the second item of a /compare batch has duration 25
C10_Witness ==
  /\ entry = "/compare"
  /\ Len(request) = 2
  /\ ~UnknownScenarioAt(1) /\ ~UnknownScenarioAt(2)
  /\ ~DurationOutOfRangeAt(1) /\ DurationOutOfRangeAt(2)
  /\ invoked = << >>
  /\ response.status = 422

\* the Baseline Record as a simulate result exposes it
RegionCountSum(res) ==
  SeqSum([ i \in 1..Len(res.regional) |-> res.regional[i].current_clients ])
SegmentCountSum(res) ==
  SeqSum([ i \in 1..Len(res.segments) |-> res.segments[i].current_clients ])
TotalClients(res) == res.kpis.clients - res.kpis.diff_clients

\* entries of the record that the snapshot does not supply
DefaultedRegions == { r \in RegionName : file.governorate[r] = 0 }
DefaultedSegments ==
  { s \in { "Premium", "SME", "Mass Market" } :
      s \notin DOMAIN file.sizes \/ file.sizes[s] = 0 }
RowsInRegions ==
  SeqSum([ i \in 1..Len(REGIONS) |-> file.governorate[REGIONS[i]] ])
RowsInSegments == IF "SME" \in DefaultedSegments THEN 0 ELSE file.sizes["SME"]

WithinDefaultRounding(sum, total, defaulted) ==
  sum = total \/ Abs(sum - total) < defaulted

\* C11 as stated: the region counts and the three segment counts of the
\* Baseline Record each sum to total_clients, up to a difference smaller
\* than the number of defaulted entries
C11_CountsSumToTotal ==
  SimOk =>
    /\ WithinDefaultRounding(RegionCountSum(SimRes), TotalClients(SimRes),
                             Cardinality(DefaultedRegions))
    /\ WithinDefaultRounding(SegmentCountSum(SimRes), TotalClients(SimRes),
                             Cardinality(DefaultedSegments))

\* C11 amended: every absent entry gets its default independently of the
\* entries present: the region counts sum to the rows of the enumerated
\* governorates plus max(1, total // 24) per absent region, the segment
\* counts to the SME rows plus total // 3 per absent segment; the segment
\* counts are within rounding of total_clients (short by less than 3) when
\* all three are defaulted
C11_CountsSumWithIndependentDefaults ==
  SimOk =>
    LET total == TotalClients(SimRes)
    IN  /\ total = Base.total_clients
        /\ total = RowsInRegions + file.other
        /\ RegionCountSum(SimRes)
             = RowsInRegions
                 + Cardinality(DefaultedRegions) * Max(1, total \div 24)
        /\ SegmentCountSum(SimRes)
             = RowsInSegments + Cardinality(DefaultedSegments) * (total \div 3)
        /\ Cardinality(DefaultedSegments) = 3
             => total - SegmentCountSum(SimRes) \in 0..2

\* C11 witness: a snapshot with one populated governorate and only SME rows:
\* both sums exceed total_clients by more than the defaulted entries
C11_Witness ==
  /\ SimOk
  /\ RowsInRegions > 0
  /\ Cardinality(DefaultedSegments) = 2
  /\ RegionCountSum(SimRes) - TotalClients(SimRes) >= 0
  /\ SegmentCountSum(SimRes) - TotalClients(SimRes) >= 2
  /\ ~WithinDefaultRounding(SegmentCountSum(SimRes), TotalClients(SimRes), 2)

\* thread t has finished a call and not yet returned
CallDone(t) == calls[t].pc = "done"

\* C12 as stated: in every interleaving, the first calls included, a call
\* writes no shared state: the cache and the module global are the same at
\* its end as at its start, and all its reads of the snapshot are the same
\* complete frame
C12_NoSharedWriteInAnyCall ==
  \A t \in Threads :
    CallDone(t) =>
      /\ ~calls[t].wrote
      /\ calls[t].end = calls[t].start
      /\ \A i \in 1..Len(calls[t].reads) : calls[t].reads[i] = load_df_read(file)

\* C12 amended: a call writes shared state exactly when its load_df lookup
\* finds the cache empty (it then rebinds the module global and fills the
\* cache if still empty); a call that starts with the cache filled writes
\* nothing and ends with the cache and the global as at its start; once
\* filled the cache holds the frame of the file; every read of a call is
\* that same complete frame
C12_WritesOnlyOnCacheMiss ==
  /\ cache # << >>
       => (cache = << load_df_read(file) >> /\ last_schema_mapping = "mapped")
  /\ \A t \in Threads :
       CallDone(t) =>
         /\ calls[t].wrote = calls[t].missed
         /\ calls[t].missed => calls[t].start[1] = << >>
         /\ calls[t].start[1] # << >>
              => (~calls[t].wrote /\ calls[t].end = calls[t].start)
         /\ Len(calls[t].reads) \in { 1, 2, 3 }
         /\ \A i \in 1..Len(calls[t].reads) :
              calls[t].reads[i] = load_df_read(file)

\* C12 witness: one thread finished a first call that loaded the file,
\* another finished a call that started with the cache filled
C12_Witness ==
  \E t, u \in Threads :
    /\ CallDone(t) /\ calls[t].missed /\ calls[t].wrote
    /\ calls[t].end # calls[t].start
    /\ CallDone(u) /\ ~calls[u].missed /\ ~calls[u].wrote
    /\ calls[u].start[1] # << >>
    /\ calls[u].end = calls[u].start

\* two first calls overlapped and both ran the body of load_df
C12_DoubleLoadReached ==
  \E t, u \in Threads :
    /\ t # u
    /\ CallDone(t) /\ calls[t].missed
    /\ CallDone(u) /\ calls[u].missed

\* the claimed churn formula, in units of 1 / LOCAL_DEN: impulse is
\* churnEffect * intensityMultiplier * (durationMonths / 6) * 2.0 over
\* RATIO_DEN, the damping factor is in tenths and the behaviour adjustment
\* 1 + 0.6 * (avgCash - 0.5) - 0.6 * (avgDigital - 0.5) in thousandths
Impulse(a) ==
  COEFF[a.scenario].churn * INT_MULT[a.intensity] * a.duration_months * 2
Dampened(a) == Df.digital_payment_adoption >= 60 /\ Impulse(a) > 0
BehaviourAdjustment ==
  1000 + 6 * (Df.cash_usage_ratio - 50) - 6 * (Df.digital_payment_adoption - 50)
ClaimedChurn(a) ==
  LET x == (LOCAL_DEN \div 4)
             + Impulse(a) * (IF Dampened(a) THEN 7 ELSE 10) * BehaviourAdjustment
  IN  IF x < 0 THEN 0 ELSE IF x > LOCAL_DEN THEN LOCAL_DEN ELSE x

\* C13: the churn_rate KPI is clamp(0.25 + impulse * adjustment, 0, 1), the
\* impulse being multiplied by 0.7 exactly when avgDigital >= 0.60 and
\* impulse > 0
C13_ChurnFormula ==
  SimOk => 2 * SimRes.kpis.churn_rate = ClaimedChurn(SimArgs)

\* C13 witness: an adverse impulse dampened at avgDigital = 0.60 exactly,
\* the result strictly inside (0.25, 1)
C13_Witness ==
  /\ SimOk
  /\ Df.digital_payment_adoption = 60
  /\ Impulse(SimArgs) > 0
  /\ 2 * SimRes.kpis.churn_rate
       = (LOCAL_DEN \div 4) + Impulse(SimArgs) * 7 * BehaviourAdjustment
  /\ 2 * SimRes.kpis.churn_rate < LOCAL_DEN

\* a beneficial impulse on a digitally mature population is not dampened
C13_BeneficialUndampedReached ==
  /\ SimOk
  /\ Df.digital_payment_adoption >= 60
  /\ Impulse(SimArgs) < 0
  /\ 2 * SimRes.kpis.churn_rate
       = (LOCAL_DEN \div 4) + Impulse(SimArgs) * 10 * BehaviourAdjustment
  /\ SimRes.kpis.churn_rate > 0

\* an adverse impulse below the shield threshold is not dampened
C13_AdverseUndampedReached ==
  /\ SimOk
  /\ Df.digital_payment_adoption < 60
  /\ Impulse(SimArgs) > 0
  /\ 2 * SimRes.kpis.churn_rate
       = (LOCAL_DEN \div 4) + Impulse(SimArgs) * 10 * BehaviourAdjustment
  /\ 2 * SimRes.kpis.churn_rate < LOCAL_DEN

====
